---------------------------- MODULE Spec2Model ----------------------------
(***************************************************************************)
(* Aurora Weather (src/App.js): the App component's state, its two         *)
(* request/response flows (searchCity, fetchWeather), the mode effect and  *)
(* the press handlers of the rendered tree, as a state machine.            *)
(*                                                                         *)
(* JavaScript runs the component single-threaded: every handler runs from  *)
(* its first statement to its first `await` (or its end) without           *)
(* interleaving, and the continuation after `await fetch(...)` runs as one *)
(* later step when the network answers.  One action models one such step.  *)
(* Requests in flight are not cancelled and may be answered in any order.  *)
(*                                                                         *)
(* Conventions: a JavaScript string that the code inspects (query text)    *)
(* is a sequence of one-character strings; arrays are sequences, so index  *)
(* i of the source is index i+1 here; a JSON object is a record and a      *)
(* missing key is a name outside its DOMAIN.                               *)
(***************************************************************************)
EXTENDS Integers, Sequences, FiniteSets, Bags, TLC

VARIABLES
    query,        \* useState("")            src/App.js:48
    recent,       \* useState([...])         src/App.js:49
    mode,         \* useState("basic")       src/App.js:50
    cities,       \* useState([])            src/App.js:51
    loadingCity,  \* useState(false)         src/App.js:52
    loadingWx,    \* useState(false)         src/App.js:53
    error,        \* useState("")            src/App.js:54
    place,        \* useState(null)          src/App.js:56
    hours,        \* useState([])            src/App.js:57
    geoReqs,      \* bag of geocoding requests awaiting fetch(url), src/App.js:73
    wxReqs,       \* bag of forecast requests awaiting fetch(url),  src/App.js:107
    sent,         \* history: number of fetch(url) calls made so far
    last          \* history: the step taken last and the state it started from

vars == <<query, recent, mode, cities, loadingCity, loadingWx, error,
          place, hours, geoReqs, wxReqs, sent, last>>

----------------------------------------------------------------------------
(* Bounds of the model.                                                    *)

\* fetch(url) calls explored in one run
MaxSent == 3
\* requests of one flow in flight at the same time
MaxInFlight == 2
\* hourly samples in a forecast the full model's server returns
MaxHours == 2
\* searches explored when the RecentQuery list is filled
MaxSearches == 7
\* longest response array explored when rows are built
MaxLen == 25

----------------------------------------------------------------------------
(* JavaScript values and string functions.                                 *)

\* the value of a missing array element or object key
Undefined == -1

\* place === null
Null == [null |-> TRUE]

UpperChars == <<"A","B","C","D","E","F","G","H","I","J","K","L","M",
                "N","O","P","Q","R","S","T","U","V","W","X","Y","Z">>
LowerChars == <<"a","b","c","d","e","f","g","h","i","j","k","l","m",
                "n","o","p","q","r","s","t","u","v","w","x","y","z">>

\* white space String.prototype.trim removes
WhiteSpace == {" ", "\t", "\n"}

\* the lower-case letter of each upper-case letter
LowerOf ==
    [c \in {UpperChars[i] : i \in DOMAIN UpperChars} |->
        LowerChars[CHOOSE i \in DOMAIN UpperChars : UpperChars[i] = c]]

LowerChar(c) == IF c \in DOMAIN LowerOf THEN LowerOf[c] ELSE c

\* s.toLowerCase()
toLowerCase(s) == [i \in 1..Len(s) |-> LowerChar(s[i])]

RECURSIVE TrimStart(_)
TrimStart(s) ==
    IF s # <<>> /\ Head(s) \in WhiteSpace THEN TrimStart(Tail(s)) ELSE s

RECURSIVE TrimEnd(_)
TrimEnd(s) ==
    IF s # <<>> /\ s[Len(s)] \in WhiteSpace
    THEN TrimEnd(SubSeq(s, 1, Len(s) - 1))
    ELSE s

\* a trim that removes nothing
trim_none(s) == s

\* s.trim()
trim(s) == TrimEnd(TrimStart(s))

\* arr.slice(0, n)
slice(arr, n) == SubSeq(arr, 1, IF Len(arr) < n THEN Len(arr) ELSE n)

\* prev.filter((x) => x.toLowerCase() !== q.toLowerCase())
RECURSIVE filterOthers(_, _)
filterOthers(prev, q) ==
    IF prev = <<>> THEN <<>>
    ELSE IF toLowerCase(Head(prev)) # toLowerCase(q)
         THEN <<Head(prev)>> \o filterOthers(Tail(prev), q)
         ELSE filterOthers(Tail(prev), q)

\* .slice(0, 8) of the recent list
RecentCap == 8

\* t.slice(0, 24) of the forecast
HourCap == 24

\* the recent list with a filter that compares case-sensitively (x !== q)
nextRecent_caseSensitive(prev, q) ==
    slice(<<q>> \o SelectSeq(prev, LAMBDA x : x # q), RecentCap)

\* [q, ...prev.filter(...)].slice(0, 8)
nextRecent(prev, q) == slice(<<q>> \o filterOthers(prev, q), RecentCap)

----------------------------------------------------------------------------
(* The initial recent list, ["Hamilton", "Toronto", "New York"].           *)

Hamilton == <<"H","a","m","i","l","t","o","n">>
Toronto == <<"T","o","r","o","n","t","o">>
NewYork == <<"N","e","w"," ","Y","o","r","k">>
InitialRecent == <<Hamilton, Toronto, NewYork>>

ErrSearch == "City search failed. Check your connection or try a different name."
ErrForecast == "Could not load forecast. Please try again."


----------------------------------------------------------------------------
(* The two web services, as far as the component reads their answers.      *)

\* entries of the geocoding answer's "results" array
Result1 == [id |-> 1, name |-> "Hamilton", country |-> "Canada",
            latitude |-> 43, longitude |-> -80]
Result2 == [id |-> 2, name |-> "Hamilton", country |-> "New Zealand",
            latitude |-> -38, longitude |-> 175]

\* geocoding answers: matches, or a body without a "results" key (no match)
GeoBodies == { [results |-> <<Result1, Result2>>], [generationtime_ms |-> 1] }

\* the hourly= parameter of the forecast url, chosen by the mode
\* (the comma-separated list, as the sequence of its fields)
hourlyParam(m) ==
    IF m = "precip"
    THEN <<"temperature_2m", "precipitation_probability", "weathercode">>
    ELSE <<"temperature_2m", "weathercode">>

\* the forecast url: latitude, longitude and hourly fields
forecastUrl(p, m) == [lat |-> p.lat, lon |-> p.lon, hourly |-> hourlyParam(m)]

\* the forecast service's answer to url with n hours of data: parallel
\* arrays that depend on the coordinates, and the precipitation array only
\* when the url asks for it
Forecast(url, n) ==
    LET base == [time           |-> [i \in 1..n |-> i],
                 temperature_2m |-> [i \in 1..n |-> url.lat + i],
                 weathercode    |-> [i \in 1..n |-> i % 4]]
        prec == [precipitation_probability |->
                     [i \in 1..n |-> (url.lat * url.lat + 7 * i) % 101]]
        asked == {url.hourly[i] : i \in DOMAIN url.hourly}
    IN  [hourly |-> IF "precipitation_probability" \in asked
                    THEN base @@ prec
                    ELSE base]

\* the ways a request fails: fetch rejects (or res.json() does), res.ok is false
FailKinds == {"network", "status"}

----------------------------------------------------------------------------
(* Reshaping the answers.                                                  *)

\* (data.results || [])
resultsOf(data) == IF "results" \in DOMAIN data THEN data.results ELSE <<>>

\* (r) => ({ id: `${r.id}`, name, country, lat: r.latitude, lon: r.longitude })
toPlace(r) ==
    [id |-> ToString(r.id), name |-> r.name, country |-> r.country,
     lat |-> r.latitude, lon |-> r.longitude]

toCities(data) == [i \in 1..Len(resultsOf(data)) |-> toPlace(resultsOf(data)[i])]

\* data?.hourly?.f || []
hourlyOf(data, f) ==
    IF "hourly" \in DOMAIN data /\ f \in DOMAIN data.hourly
    THEN data.hourly[f]
    ELSE <<>>

\* arr[i], undefined past the end of arr
at(arr, i) == IF i <= Len(arr) THEN arr[i] ELSE Undefined

\* the rows with a slice that is one too long, t.slice(0, 25)
rowsOf_offByOne(data) ==
    LET t    == hourlyOf(data, "time")
        temp == hourlyOf(data, "temperature_2m")
        code == hourlyOf(data, "weathercode")
        pop  == hourlyOf(data, "precipitation_probability")
        head == slice(t, HourCap + 1)
    IN  [i \in 1..Len(head) |->
            [key |-> head[i], time |-> head[i], temp |-> at(temp, i),
             code |-> at(code, i), pop |-> at(pop, i)]]

\* t.slice(0, 24).map((time, i) => ({ key, time, temp, code, pop }))
rowsOf(data) ==
    LET t    == hourlyOf(data, "time")
        temp == hourlyOf(data, "temperature_2m")
        code == hourlyOf(data, "weathercode")
        pop  == hourlyOf(data, "precipitation_probability")
        head == slice(t, HourCap)
    IN  [i \in 1..Len(head) |->
            [key |-> head[i], time |-> head[i], temp |-> at(temp, i),
             code |-> at(code, i), pop |-> at(pop, i)]]

----------------------------------------------------------------------------
(* History: the step taken last, what it was called with (the trimmed     *)
(* query q of a search step, the url of the forecast request a step makes  *)
(* or completes, the body of an answer) and the error message it started   *)
(* from.                                                                   *)

NoUrl == [lat |-> 0, lon |-> 0, hourly |-> <<>>]
NoData == [none |-> TRUE]
Step(op, q, url, data, err) ==
    [op |-> op, q |-> q, url |-> url, data |-> data, error |-> err]

----------------------------------------------------------------------------
(* Initial state: the useState initial values; the mode effect has run     *)
(* once on mount with place = null and did nothing.                        *)

Init ==
    /\ query = <<>>
    /\ recent = InitialRecent
    /\ mode = "basic"
    /\ cities = <<>>
    /\ loadingCity = FALSE
    /\ loadingWx = FALSE
    /\ error = ""
    /\ place = Null
    /\ hours = <<>>
    /\ geoReqs = EmptyBag
    /\ wxReqs = EmptyBag
    /\ sent = 0
    /\ last = Step("mount", <<>>, NoUrl, NoData, "")

----------------------------------------------------------------------------
(* Location Resolver.                                                      *)

\* searchCity without setError("")
searchCity_keepError(text) ==
    LET q == trim(IF text # <<>> THEN text ELSE query)
    IN  /\ last' = Step("searchCity", q, NoUrl, NoData, error)
        /\ IF q = <<>>
           THEN UNCHANGED <<loadingCity, cities, geoReqs, sent>>
           ELSE /\ loadingCity' = TRUE
                /\ cities' = <<>>
                /\ geoReqs' = geoReqs (+) SetToBag({q})
                /\ sent' = sent + 1
        /\ UNCHANGED <<error, recent, mode, loadingWx, place, hours, wxReqs>>

\* searchCity that also empties the hour sequence, setHours([])
searchCity_clearsHours(text) ==
    LET q == trim(IF text # <<>> THEN text ELSE query)
    IN  /\ last' = Step("searchCity", q, NoUrl, NoData, error)
        /\ IF q = <<>>
           THEN UNCHANGED <<loadingCity, error, cities, hours, geoReqs, sent>>
           ELSE /\ loadingCity' = TRUE
                /\ error' = ""
                /\ cities' = <<>>
                /\ hours' = <<>>
                /\ geoReqs' = geoReqs (+) SetToBag({q})
                /\ sent' = sent + 1
        /\ UNCHANGED <<recent, mode, loadingWx, place, wxReqs>>

\* searchCity(text) up to `await fetch(url)`; the caller states query'
searchCity(text) ==
    LET q == trim(IF text # <<>> THEN text ELSE query)
    IN  /\ last' = Step("searchCity", q, NoUrl, NoData, error)
        /\ IF q = <<>>
           THEN UNCHANGED <<loadingCity, error, cities, geoReqs, sent>>
           ELSE /\ loadingCity' = TRUE
                /\ error' = ""
                /\ cities' = <<>>
                /\ geoReqs' = geoReqs (+) SetToBag({q})
                /\ sent' = sent + 1
        /\ UNCHANGED <<recent, mode, loadingWx, place, hours, wxReqs>>

\* searchCity after the await: the request for q is answered with data
searchOk(q, data) ==
    /\ BagIn(q, geoReqs)
    /\ geoReqs' = geoReqs (-) SetToBag({q})
    /\ cities' = toCities(data)
    /\ recent' = nextRecent(recent, q)
    /\ loadingCity' = FALSE
    /\ last' = Step("searchOk", q, NoUrl, data, error)
    /\ UNCHANGED <<query, mode, loadingWx, error, place, hours, wxReqs, sent>>

\* searchCity after the await: the request for q fails (catch, finally)
searchFail(q, kind) ==
    /\ BagIn(q, geoReqs)
    /\ kind \in FailKinds
    /\ geoReqs' = geoReqs (-) SetToBag({q})
    /\ error' = ErrSearch
    /\ loadingCity' = FALSE
    /\ last' = Step("searchFail", q, NoUrl, NoData, error)
    /\ UNCHANGED <<query, recent, mode, cities, loadingWx, place, hours,
                   wxReqs, sent>>

\* onChangeText={setQuery}
TypeQuery(text) ==
    /\ query' = text
    /\ last' = Step("setQuery", <<>>, NoUrl, NoData, error)
    /\ UNCHANGED <<recent, mode, cities, loadingCity, loadingWx, error, place,
                   hours, geoReqs, wxReqs, sent>>

\* onSubmitEditing / the Search button: searchCity()
SubmitSearch ==
    /\ searchCity(<<>>)
    /\ UNCHANGED query

\* a recent chip: setQuery(item); searchCity(item)
PressRecent(i) ==
    /\ i \in 1..Len(recent)
    /\ query' = recent[i]
    /\ searchCity(recent[i])

----------------------------------------------------------------------------
(* Forecast Fetcher.                                                       *)

\* fetchWeather(p) up to `await fetch(url)`, called from a render whose
\* mode is m; the caller states mode' and last'
fetchWeather(p, m) ==
    /\ IF p = Null
       THEN UNCHANGED <<loadingWx, error, place, hours, wxReqs, sent>>
       ELSE /\ loadingWx' = TRUE
            /\ error' = ""
            /\ place' = p
            /\ hours' = <<>>
            /\ wxReqs' = wxReqs (+) SetToBag({forecastUrl(p, m)})
            /\ sent' = sent + 1
    /\ UNCHANGED <<query, recent, cities, loadingCity, geoReqs>>

\* fetchWeather after the await: the request for url is answered with data
fetchOk(url, data) ==
    /\ BagIn(url, wxReqs)
    /\ wxReqs' = wxReqs (-) SetToBag({url})
    /\ hours' = rowsOf(data)
    /\ loadingWx' = FALSE
    /\ last' = Step("fetchOk", <<>>, url, data, error)
    /\ UNCHANGED <<query, recent, mode, cities, loadingCity, error, place,
                   geoReqs, sent>>

\* fetchWeather after the await: the request for url fails (catch, finally)
fetchFail(url, kind) ==
    /\ BagIn(url, wxReqs)
    /\ kind \in FailKinds
    /\ wxReqs' = wxReqs (-) SetToBag({url})
    /\ error' = ErrForecast
    /\ loadingWx' = FALSE
    /\ last' = Step("fetchFail", <<>>, url, NoData, error)
    /\ UNCHANGED <<query, recent, mode, cities, loadingCity, place, hours,
                   geoReqs, sent>>

\* a row of the candidate list, rendered while loadingCity is false:
\* onPress={() => fetchWeather(item)}
SelectPlace(i) ==
    /\ ~loadingCity
    /\ i \in 1..Len(cities)
    /\ fetchWeather(cities[i], mode)
    /\ last' = Step("selectPlace", <<>>, forecastUrl(cities[i], mode), NoData, error)
    /\ UNCHANGED mode

\* a mode chip whose effect calls a fetchWeather that still sees the old mode
PressMode_staleMode(value) ==
    /\ value \in {"basic", "precip"}
    /\ mode' = value
    /\ IF value # mode /\ place # Null
       THEN /\ fetchWeather(place, mode)
            /\ last' = Step("setMode", <<>>, forecastUrl(place, mode), NoData, error)
       ELSE /\ last' = Step("setMode", <<>>, NoUrl, NoData, error)
            /\ UNCHANGED <<query, recent, cities, loadingCity, loadingWx,
                           error, place, hours, geoReqs, wxReqs, sent>>

\* a mode chip: setMode(value); when the value changes the component
\* renders again and the [mode] effect calls fetchWeather(place) if (place)
PressMode(value) ==
    /\ value \in {"basic", "precip"}
    /\ mode' = value
    /\ IF value # mode /\ place # Null
       THEN /\ fetchWeather(place, value)
            /\ last' = Step("setMode", <<>>, forecastUrl(place, value), NoData, error)
       ELSE /\ last' = Step("setMode", <<>>, NoUrl, NoData, error)
            /\ UNCHANGED <<query, recent, cities, loadingCity, loadingWx,
                           error, place, hours, geoReqs, wxReqs, sent>>

----------------------------------------------------------------------------
(* The full component.                                                     *)

Rome == <<" ","R","o","m","e"," ">>
Blank == <<" ","\t">>

\* texts typed into the search box
Texts == {Blank, Rome}

\* hours of data in a forecast answer
HourCounts == 1..MaxHours

GeoInFlight == BagCardinality(geoReqs)
WxInFlight == BagCardinality(wxReqs)

Next ==
    \/ \E t \in Texts : TypeQuery(t)
    \/ sent < MaxSent /\ GeoInFlight < MaxInFlight /\ SubmitSearch
    \/ sent < MaxSent /\ GeoInFlight < MaxInFlight
          /\ \E i \in 1..Len(recent) : PressRecent(i)
    \/ sent < MaxSent /\ WxInFlight < MaxInFlight
          /\ \E i \in 1..Len(cities) : SelectPlace(i)
    \/ sent < MaxSent /\ WxInFlight < MaxInFlight
          /\ \E v \in {"basic", "precip"} : PressMode(v)
    \/ \E q \in BagToSet(geoReqs), data \in GeoBodies : searchOk(q, data)
    \/ \E q \in BagToSet(geoReqs), k \in FailKinds : searchFail(q, k)
    \/ \E url \in BagToSet(wxReqs), n \in HourCounts : fetchOk(url, Forecast(url, n))
    \/ \E url \in BagToSet(wxReqs), k \in FailKinds : fetchFail(url, k)

Spec == Init /\ [][Next]_vars

----------------------------------------------------------------------------
(* The Location Resolver alone, with enough different city names to fill   *)
(* the RecentQuery list past its cap.                                      *)

\* new city names, in the order in which the user types them, and an
\* earlier entry typed in another case with blanks around it
NewNames == << <<"a">>, <<"B">>, <<"c">>, <<"D">>, <<"e">>, <<"F">>, <<"g">>, <<"K">> >>
PaddedHamilton == <<" ","h","A","M","I","L","T","O","N"," ">>

\* texts typed after n searches: the next new name, or the earlier entry
RecentTexts(n) ==
    {PaddedHamilton} \cup {NewNames[k] : k \in {n + 1} \cap DOMAIN NewNames}

\* chips pressed: the newest and the oldest entry
RecentChips == {1, Len(recent)}

\* In this specification the user waits for the answer to one search
\* before starting the next one.
NextRecent ==
    \/ \E t \in RecentTexts(sent) : TypeQuery(t)
    \/ sent < MaxSearches /\ geoReqs = EmptyBag /\ SubmitSearch
    \/ sent < MaxSearches /\ geoReqs = EmptyBag
          /\ \E i \in RecentChips : PressRecent(i)
    \/ \E q \in BagToSet(geoReqs) : searchOk(q, [generationtime_ms |-> 1])
    \/ \E q \in BagToSet(geoReqs), k \in FailKinds : searchFail(q, k)

SpecRecent == Init /\ [][NextRecent]_vars

----------------------------------------------------------------------------
(* The Forecast Fetcher with answers of every shape: a time array of 0 to  *)
(* MaxLen entries and, for each other field, no array, a shorter one or    *)
(* one as long as the time array.                                          *)

\* the key f with an array of n entries, or no key when n < 0
Column(f, n, base) ==
    IF n < 0 THEN <<>> ELSE f :> [i \in 1..n |-> base + i]

Answer(nTime, nTemp, nCode, nPop) ==
    [hourly |-> Column("time", nTime, 0)
                @@ Column("temperature_2m", nTemp, 100)
                @@ Column("weathercode", nCode, 200)
                @@ Column("precipitation_probability", nPop, 300)]

TimeLens == 0..MaxLen
OtherLens(n) == {-1, n - 1, n} \cap (-1..MaxLen)

\* a body without "hourly", and every shape of the hourly arrays
RowAnswers ==
    {[reason |-> "no data"]} \cup
    UNION { {Answer(a, b, c, d) : b \in OtherLens(a), c \in OtherLens(a),
                                  d \in OtherLens(a)} : a \in TimeLens \cup {-1} }

\* In this specification no request fails.
NextRows ==
    \/ TypeQuery(Rome)
    \/ sent < MaxSent /\ geoReqs = EmptyBag /\ SubmitSearch
    \/ sent < MaxSent /\ wxReqs = EmptyBag
          /\ \E i \in 1..Len(cities) : SelectPlace(i)
    \/ sent < MaxSent /\ wxReqs = EmptyBag
          /\ \E v \in {"basic", "precip"} : PressMode(v)
    \/ \E q \in BagToSet(geoReqs), data \in GeoBodies : searchOk(q, data)
    \/ \E url \in BagToSet(wxReqs), data \in RowAnswers : fetchOk(url, data)

SpecRows == Init /\ [][NextRows]_vars

----------------------------------------------------------------------------
(* Properties.                                                             *)

Range(f) == {f[i] : i \in DOMAIN f}
Min(a, b) == IF a < b THEN a ELSE b
EqIgnoringCase(a, b) == toLowerCase(a) = toLowerCase(b)
OnlyWhiteSpace(s) == \A i \in DOMAIN s : s[i] \in WhiteSpace
\* the state of the search flow and of the forecast flow
searchVars == <<cities, loadingCity>>
wxVars == <<place, hours, loadingWx>>
SearchSteps == {"searchCity", "searchOk", "searchFail"}
FetchStarts == {"selectPlace", "setMode"}
FetchSteps == {"selectPlace", "setMode", "fetchOk", "fetchFail"}

\* h holds sample i of the answer `data` at index i, for the first
\* HourCap entries of its time array
SamplesOf(data, h) ==
    LET t    == hourlyOf(data, "time")
        temp == hourlyOf(data, "temperature_2m")
        code == hourlyOf(data, "weathercode")
        pop  == hourlyOf(data, "precipitation_probability")
    IN  /\ Len(h) = Min(HourCap, Len(t))
        /\ \A i \in 1..Len(h) :
              /\ h[i].time = t[i]
              /\ h[i].temp = IF i \in DOMAIN temp THEN temp[i] ELSE Undefined
              /\ h[i].code = IF i \in DOMAIN code THEN code[i] ELSE Undefined
              /\ h[i].pop = IF i \in DOMAIN pop THEN pop[i] ELSE Undefined

\* C1: in every reachable state the hour sequence is empty or consists of
\* the samples of one answer to the request made for the currently
\* selected place and the current mode.
C1_HoursBelongToSelection ==
    hours # <<>> =>
        /\ place # Null
        /\ \E n \in HourCounts :
              hours = rowsOf(Forecast(forecastUrl(place, mode), n))

\* C2 (state part): the recent list has at most 8 entries and no two
\* entries equal ignoring case.
C2_Bounded ==
    LET lower == [i \in DOMAIN recent |-> toLowerCase(recent[i])]
    IN  /\ Len(recent) <= RecentCap
        /\ \A i, j \in DOMAIN recent : i < j => lower[i] # lower[j]

\* C2 (step part): when a search for the trimmed query q succeeds, q becomes
\* the first entry, no other entry equals q ignoring case, and the other
\* entries are earlier entries in their earlier order.
C2_MoveToFront ==
    last'.op = "searchOk" =>
        LET q == last'.q
            others == {a \in DOMAIN recent : ~EqIgnoringCase(recent[a], q)}
        IN  /\ q # <<>> /\ ~(q[1] \in WhiteSpace) /\ ~(q[Len(q)] \in WhiteSpace)
            /\ recent'[1] = q
            /\ Len(recent') = Min(RecentCap, 1 + Cardinality(others))
            /\ \A i \in 2..Len(recent') :
                  /\ ~EqIgnoringCase(recent'[i], q)
                  /\ \E a \in DOMAIN recent : recent[a] = recent'[i]
            /\ \A i, j \in 2..Len(recent') :
                  i < j => \E a, b \in DOMAIN recent :
                              a < b /\ recent[a] = recent'[i] /\ recent[b] = recent'[j]

\* C2: starting from ["Hamilton", "Toronto", "New York"], the recent list
\* always has at most 8 entries and no case-insensitive duplicate, and a
\* successful search moves its query to the front instead of duplicating it
\* (the state part holds initially and after every step that changes the list).
C2_RecentList ==
    C2_Bounded /\ [][C2_MoveToFront /\ (recent' # recent => C2_Bounded')]_vars

\* C2 witness: a search for "hAMILTON" succeeded on a full list: the entry
\* "Hamilton" was replaced, "New York" had been dropped by the cap.
C2_Witness ==
    /\ last.op = "searchOk"
    /\ last.q = trim(PaddedHamilton)
    /\ recent[1] = trim(PaddedHamilton)
    /\ Len(recent) = RecentCap
    /\ \A i \in DOMAIN recent : recent[i] # Hamilton /\ recent[i] # NewYork

\* C3: a successful forecast answer stores min(24, length of the time
\* array) samples, at most 24, and sample i holds the time, temperature,
\* weather code and precipitation probability at index i of the answer's
\* arrays, absent where the array is missing or too short.
C3_RowsAligned ==
    last.op = "fetchOk" =>
        /\ Len(hours) <= HourCap
        /\ SamplesOf(last.data, hours)

\* C3 witness: an answer with more than 24 times and a precipitation array
\* that is missing was stored as 24 samples.
C3_Witness ==
    /\ last.op = "fetchOk"
    /\ Len(hourlyOf(last.data, "time")) > HourCap
    /\ Len(hourlyOf(last.data, "temperature_2m")) = HourCap
    /\ "hourly" \in DOMAIN last.data
    /\ "precipitation_probability" \notin DOMAIN last.data.hourly
    /\ Len(hours) = HourCap
    /\ hours[HourCap].temp # Undefined
    /\ hours[HourCap].pop = Undefined

\* the step condition of C4
C4_Step ==
    /\ (mode' # mode /\ place # Null) =>
          /\ \E h \in {hourlyParam("basic"), hourlyParam("precip")} :
                /\ wxReqs' = wxReqs (+) SetToBag({[lat |-> place.lat,
                                                   lon |-> place.lon,
                                                   hourly |-> h]})
                /\ ("precipitation_probability" \in Range(h)) <=> (mode' = "precip")
                /\ {"temperature_2m", "weathercode"} \subseteq Range(h)
          /\ sent' = sent + 1
          /\ place' = place
          /\ hours' = <<>>
          /\ geoReqs' = geoReqs
    /\ (last'.op = "setMode" /\ (mode' = mode \/ place = Null)) =>
          /\ sent' = sent
          /\ wxReqs' = wxReqs
          /\ geoReqs' = geoReqs
          /\ hours' = hours
    /\ last'.op = "fetchOk" => SamplesOf(last'.data, hours')

\* C4: switching the mode to a different value while a place is selected
\* starts exactly one forecast request, for the selected place and with the
\* fields of the new mode, and empties the hour sequence, which a successful
\* answer then replaces by that answer's samples; with no place selected, or
\* when the chip pressed is the current mode, no request is started.
C4_ModeSwitch == [][C4_Step]_vars

\* C4 witness: the mode was switched to precip with a place selected: the
\* request for that place with the precipitation field is in flight and
\* the hour sequence is empty.
C4_Witness ==
    /\ last.op = "setMode"
    /\ mode = "precip"
    /\ place # Null
    /\ last.url = forecastUrl(place, "precip")
    /\ BagIn(last.url, wxReqs)
    /\ WxInFlight = 1
    /\ hours = <<>>

\* the step condition of C5
C5_Step ==
    last'.op = "searchFail" =>
        /\ error' = ErrSearch
        /\ cities' = <<>>
        /\ recent' = recent

\* C5: whenever a search request fails, the search-failed message is set,
\* the candidate list is empty and the recent list is unchanged, under every
\* interleaving of searches and answers.
C5_SearchFailure == [][C5_Step]_vars

\* C6: whenever a forecast request fails, the forecast-failed message is
\* set, the hour sequence is empty and the selected place is the one the
\* failed fetchWeather call was made for, under every interleaving.
C6_ForecastFailure ==
    last.op = "fetchFail" =>
        /\ error = ErrForecast
        /\ hours = <<>>
        /\ place # Null
        /\ place.lat = last.url.lat /\ place.lon = last.url.lon

\* C7: right after a searchCity call with a non-empty trimmed query, and
\* right after a fetchWeather call with a place, the error message is
\* empty; and a step that sets a message is the failure of a request.
C7_ErrorCleared ==
    /\ (last.op = "searchCity" /\ ~OnlyWhiteSpace(query)) => error = ""
    /\ (last.op \in FetchStarts /\ last.url # NoUrl) => error = ""
    /\ (error # "" /\ error # last.error) => last.op \in {"searchFail", "fetchFail"}

\* C7 witness: a search was started while the forecast-failed message was
\* shown, and the message is gone.
C7_Witness ==
    /\ last.op = "searchCity"
    /\ last.q # <<>>
    /\ last.error = ErrForecast
    /\ error = ""

\* the step condition of C8
C8_Step ==
    /\ last'.op = "searchCity" =>
          /\ GeoInFlight' - GeoInFlight \in {0, 1}
          /\ sent' - sent = GeoInFlight' - GeoInFlight
          /\ wxReqs' = wxReqs
    /\ last'.op \in FetchStarts =>
          /\ WxInFlight' - WxInFlight \in {0, 1}
          /\ sent' - sent = WxInFlight' - WxInFlight
          /\ geoReqs' = geoReqs
    /\ last'.op \in {"searchOk", "searchFail"} =>
          /\ sent' = sent /\ wxReqs' = wxReqs
          /\ GeoInFlight' = GeoInFlight - 1
    /\ last'.op \in {"fetchOk", "fetchFail"} =>
          /\ sent' = sent /\ geoReqs' = geoReqs
          /\ WxInFlight' = WxInFlight - 1
    /\ last'.op = "setQuery" => sent' = sent /\ geoReqs' = geoReqs /\ wxReqs' = wxReqs
    /\ searchVars' # searchVars => last'.op \in SearchSteps
    /\ wxVars' # wxVars => last'.op \in FetchSteps

\* C8: a search submission starts at most one geocoding request and no
\* forecast request; selecting a place or switching the mode starts at most
\* one forecast request and no geocoding request; an answer starts no
\* request; the candidate list and loadingCity change only in steps of the
\* search flow, and the place, the hours and loadingWx only in steps of the
\* forecast flow.
C8_FlowsSeparate == [][C8_Step]_vars

\* C8 witness: a search was started while a forecast was on display: one
\* geocoding request is out and no forecast request, the candidate list is
\* emptied, and the place and its hours are still there.
C8_Witness ==
    /\ last.op = "searchCity"
    /\ GeoInFlight = 1
    /\ WxInFlight = 0
    /\ place # Null
    /\ hours # <<>>
    /\ ~loadingWx
    /\ cities = <<>>
    /\ loadingCity

\* the step condition of C9
C9_Step ==
    (last'.op = "searchCity" /\ OnlyWhiteSpace(query')) =>
        UNCHANGED <<error, cities, loadingCity, loadingWx, recent, place,
                    hours, geoReqs, wxReqs, sent>>

\* C9: a search submission whose effective query is empty after trimming
\* starts no request and leaves the error message, the candidate list, the
\* loading flags, the recent list, the selected place and the hour sequence
\* unchanged.
C9_EmptyQueryNoOp == [][C9_Step]_vars

\* C9 witness: a search was submitted with a query of blanks while an error
\* message and candidate places were on display, and they still are.
C9_Witness ==
    /\ last.op = "searchCity"
    /\ query = Blank
    /\ last.q = <<>>
    /\ error # ""
    /\ cities # <<>>
    /\ place # Null
    /\ GeoInFlight = 0

\* C10: each loading flag is true exactly when a request of its flow is in
\* flight.
C10_LoadingIffInFlight ==
    /\ loadingCity <=> GeoInFlight > 0
    /\ loadingWx <=> WxInFlight > 0

============================================================================
